---- MODULE Spec2Model ----
(***************************************************************************)
(* natural_slice: three encoders of a slice into one natural number and    *)
(* their decoders (permutation.rs, position.rs, property.rs).              *)
(*                                                                         *)
(* Every operation is a pure function.  A behaviour is one caller: Init    *)
(* draws the arguments, an encode action applies the encoder, and the      *)
(* decode action applies the decoder, either to the number the encoder     *)
(* just returned (a round trip) or to a number the caller supplies.        *)
(*                                                                         *)
(* usize is not bounded here: the bounds below keep every intermediate     *)
(* value far under 2^31, so no usize operation of the code overflows in    *)
(* the modelled range.                                                     *)
(***************************************************************************)
EXTENDS Integers, Sequences, FiniteSets

VARIABLES
    pc,               \* "encode" | "decode" | "done": what the caller does next
    coder,            \* "permutation" | "position" | "property"
    roundtrip,        \* TRUE iff the decoded number is the one encode returned
    data,             \* the slice given to encode_*
    reference,        \* the slice given to decode_permutation
    pred,             \* is_interesting, as the set of values it accepts
    mapping,          \* property_mapping, as a function value -> digit
    base,             \* the base given to encode_property / decode_property
    width,            \* bits of the Encoded integer type requested from encode_*
    code,             \* the number given to decode_*
    num_interesting,  \* decode_position's num_interesting
    len,              \* decode_position's / decode_property's len
    encoded,          \* what encode_* returned
    decoded           \* what decode_* returned

vars == <<pc, coder, roundtrip, data, reference, pred, mapping, base, width,
          code, num_interesting, len, encoded, decoded>>

args == <<coder, roundtrip, data, reference, pred, mapping, base, width,
          num_interesting, len>>

----------------------------------------------------------------------------
(* Bounds of the model *)

MaxPermLen == 6      \* longest slice given to encode_permutation
MaxShuffleLen == 4   \* up to this length every reordering is tried as reference
MaxPosLen == 11      \* longest slice given to encode_position
MaxPropLen == 4      \* longest slice of arbitrary values given to encode_property
MaxPropLongLen == 10 \* length of the slices of 0s and 1s given to encode_property
MaxBase == 3         \* largest base given to the property coder
MaxDecLen == 3       \* largest len given to a decoder with a caller-chosen number
MaxCode == 9         \* largest caller-chosen number given to a decoder
MaxCmpLen == 6       \* longest slices whose position codes are compared pairwise

----------------------------------------------------------------------------
(* Results: Result<integer, Error>, Result<Vec<_>, Error>, or a panic *)

NoResult == [tag |-> "None", num |-> 0, seq |-> <<>>]
OkNum(n) == [tag |-> "Ok", num |-> n, seq |-> <<>>]
OkSeq(s) == [tag |-> "Ok", num |-> 0, seq |-> s]
ConversionError == [tag |-> "Err", num |-> 0, seq |-> <<>>]
Panic == [tag |-> "Panic", num |-> 0, seq |-> <<>>]

RECURSIVE Pow(_, _)
Pow(b, e) == IF e = 0 THEN 1 ELSE b * Pow(b, e - 1)

(* usize -> Encoded, Encoded an unsigned integer type of `bits` bits *)
try_into_encoded(n, bits) ==
    IF n <= Pow(2, bits) - 1 THEN OkNum(n) ELSE ConversionError

(* ToDecode -> usize: a negative number does not convert *)
try_into_usize(n) ==
    IF n >= 0 THEN OkNum(n) ELSE ConversionError

Reverse(s) == [i \in 1..Len(s) |-> s[Len(s) + 1 - i]]

Range(s) == {s[i] : i \in 1..Len(s)}

----------------------------------------------------------------------------
(* permutation.rs *)

RECURSIVE factorial(_)
factorial(n) == IF n = 0 THEN 1 ELSE n * factorial(n - 1)

(* data.iter().take(pos).filter(|y| y < &x).count(), pos counted from 0 *)
calculate_count_Inclusive(pos, x, s) ==
    Cardinality({j \in 1..(pos + 1) : j <= Len(s) /\ s[j] <= x})

calculate_count(pos, x, s) ==
    Cardinality({j \in 1..pos : j <= Len(s) /\ s[j] < x})

encode_count(index, count) == count * factorial(index)

from_data(s) == [i \in 1..Len(s) |-> calculate_count(i - 1, s[i], s)]

RECURSIVE SumTo(_, _)
SumTo(terms, n) == IF n = 0 THEN 0 ELSE SumTo(terms, n - 1) + terms[n]

(* PermutationCounts::encode: counts[i] sits at index i - 1 *)
counts_encode(counts) ==
    SumTo([i \in 1..Len(counts) |-> encode_count(i - 1, counts[i])], Len(counts))

encode_permutation(s, bits) == try_into_encoded(counts_encode(from_data(s)), bits)

(* decode_count: the count, and the permutation number left *)
decode_count_KeepsPermutation(index, permutation) ==
    [count |-> permutation \div factorial(index), permutation |-> permutation]

decode_count(index, permutation) ==
    [count |-> permutation \div factorial(index),
     permutation |-> permutation % factorial(index)]

(* (0..n).rev().map(decode_count).collect(): `todo` indices are left,      *)
(* n-1 first; `acc` is the vector collected so far                         *)
RECURSIVE decode_collect(_, _, _)
decode_collect(todo, permutation, acc) ==
    IF todo = 0 THEN acc
    ELSE LET r == decode_count(todo - 1, permutation)
         IN decode_collect(todo - 1, r.permutation, Append(acc, r.count))

RECURSIVE decode_collect_Ascending(_, _, _, _)
decode_collect_Ascending(index, n, permutation, acc) ==
    IF index = n THEN acc
    ELSE LET r == decode_count(index, permutation)
         IN decode_collect_Ascending(index + 1, n, r.permutation, Append(acc, r.count))

counts_decode_Ascending(permutation, n) ==
    decode_collect_Ascending(0, n, permutation, <<>>)

(* PermutationCounts::decode *)
counts_decode(permutation, n) == Reverse(decode_collect(n, permutation, <<>>))

(* Vec::sort, as an insertion sort *)
RECURSIVE insert_sorted(_, _)
insert_sorted(x, s) ==
    IF s = <<>> THEN <<x>>
    ELSE IF x <= Head(s) THEN <<x>> \o s
    ELSE <<Head(s)>> \o insert_sorted(x, Tail(s))

RECURSIVE sort(_)
sort(s) == IF s = <<>> THEN <<>> ELSE insert_sorted(Head(s), sort(Tail(s)))

(* increasing.iter().filter(|x| !permuted.contains(x)).nth(n): an Option *)
nth_smallest(n, increasing, permuted) ==
    LET left == SelectSeq(increasing, LAMBDA x : x \notin Range(permuted))
    IN IF n < Len(left) THEN [some |-> TRUE, value |-> left[n + 1]]
       ELSE [some |-> FALSE, value |-> 0]

(* the loop of apply: counts are taken last first; .unwrap() of None panics *)
RECURSIVE apply_loop(_, _, _, _)
apply_loop(counts, todo, increasing, permuted) ==
    IF todo = 0 THEN OkSeq(permuted)
    ELSE LET x == nth_smallest(counts[todo], increasing, permuted)
         IN IF x.some
            THEN apply_loop(counts, todo - 1, increasing, Append(permuted, x.value))
            ELSE Panic

apply(counts, s) ==
    LET r == apply_loop(counts, Len(counts), sort(s), <<>>)
    IN IF r.tag = "Ok" THEN OkSeq(Reverse(r.seq)) ELSE r

decode_permutation(permutation, s) ==
    LET p == try_into_usize(permutation)
    IN IF p.tag = "Err" THEN ConversionError
       ELSE apply(counts_decode(p.num, Len(s)), s)

----------------------------------------------------------------------------
(* position.rs *)

(* num_integer::binomial(n, k), for n, k >= 0 *)
RECURSIVE binomial(_, _)
binomial(n, k) ==
    IF k > n THEN 0
    ELSE IF k = 0 THEN 1
    ELSE (binomial(n - 1, k - 1) * n) \div k

is_interesting(x, p) == x \in p

(* the term one element adds to the sum; `left` counts the interesting      *)
(* elements up to and including this one; index counted from 0             *)
position_term_NextIndex(index, x, left, p) ==
    IF is_interesting(x, p) \/ left = 0 THEN 0
    ELSE binomial(index + 1, left - 1)

position_term_NoOffset(index, x, left, p) ==
    IF is_interesting(x, p) \/ left = 0 THEN 0
    ELSE binomial(index, left)

position_term(index, x, left, p) ==
    IF is_interesting(x, p) \/ left = 0 THEN 0
    ELSE binomial(index, left - 1)

(* the iterator chain of encode_position, one element at a time *)
RECURSIVE position_scan(_, _, _, _, _)
position_scan(s, p, i, left, sum) ==
    IF i > Len(s) THEN sum
    ELSE LET l == IF is_interesting(s[i], p) THEN left + 1 ELSE left
         IN position_scan(s, p, i + 1, l, sum + position_term(i - 1, s[i], l, p))

encode_position(s, p, bits) == try_into_encoded(position_scan(s, p, 1, 0, 0), bits)

(* the cutoff decode_position compares the position number with *)
position_cutoff_NoOffset(index, left) ==
    IF left > 0 THEN binomial(index, left) ELSE 0

position_cutoff(index, left) ==
    IF left > 0 THEN binomial(index, left - 1) ELSE 0

(* (0..len).rev().map(..).collect(): `todo` indices are left, len-1 first *)
RECURSIVE position_unscan(_, _, _, _)
position_unscan(todo, position, left, acc) ==
    IF todo = 0 THEN acc
    ELSE LET cutoff == position_cutoff(todo - 1, left)
         IN IF position < cutoff
            THEN position_unscan(todo - 1, position, left - 1, Append(acc, TRUE))
            ELSE position_unscan(todo - 1, position - cutoff, left, Append(acc, FALSE))

decode_position(position, k, n) ==
    LET p == try_into_usize(position)
    IN IF p.tag = "Err" THEN ConversionError
       ELSE OkSeq(Reverse(position_unscan(n, p.num, k, <<>>)))

----------------------------------------------------------------------------
(* property.rs *)

(* the characters of a digit, std::char::from_digit's and radix_fmt's *)
DigitChars ==
    <<"0", "1", "2", "3", "4", "5", "6", "7", "8", "9", "a", "b", "c", "d", "e",
      "f", "g", "h", "i", "j", "k", "l", "m", "n", "o", "p", "q", "r", "s", "t",
      "u", "v", "w", "x", "y", "z">>

(* std::char::from_digit(num, radix): an Option; a radix over 36 panics *)
from_digit(num, radix) ==
    IF radix > Len(DigitChars) THEN [tag |-> "Panic", char |-> ""]
    ELSE IF num < radix THEN [tag |-> "Some", char |-> DigitChars[num + 1]]
    ELSE [tag |-> "None", char |-> ""]

(* char::to_digit(radix) of a character from_digit or radix_fmt wrote *)
to_digit(c, radix) ==
    LET d == (CHOOSE i \in 1..Len(DigitChars) : DigitChars[i] = c) - 1
    IN IF d < radix THEN [tag |-> "Some", digit |-> d]
       ELSE [tag |-> "None", digit |-> 0]

(* usize::from_str_radix(s, radix): a Result; the empty string is an error *)
RECURSIVE parse_digits(_, _, _, _)
parse_digits(s, radix, i, acc) ==
    IF i > Len(s) THEN OkNum(acc)
    ELSE LET d == to_digit(s[i], radix)
         IN IF d.tag = "Some" THEN parse_digits(s, radix, i + 1, acc * radix + d.digit)
            ELSE ConversionError

from_str_radix(s, radix) ==
    IF s = <<>> THEN ConversionError ELSE parse_digits(s, radix, 1, 0)

(* format!("{}", radix_fmt::radix(n, base)): most significant digit first,  *)
(* no leading zero, "0" for zero                                           *)
RECURSIVE radix_digits(_, _)
radix_digits(n, b) ==
    IF n = 0 THEN <<>>
    ELSE Append(radix_digits(n \div b, b), DigitChars[(n % b) + 1])

radix_fmt(n, b) == IF n = 0 THEN <<"0">> ELSE radix_digits(n, b)

(* the String encode_property collects from the first n - 1 elements:      *)
(* from_digit(..).unwrap() panics on a digit that is not below the base    *)
RECURSIVE collect_bits(_, _, _, _, _)
collect_bits(s, m, b, i, acc) ==
    IF i > Len(s) - 1 THEN [tag |-> "Ok", str |-> acc]
    ELSE LET c == from_digit(m[s[i]], b)
         IN IF c.tag = "Some" THEN collect_bits(s, m, b, i + 1, Append(acc, c.char))
            ELSE [tag |-> "Panic", str |-> <<>>]

(* n - 1 with n = 0 overflows: a panic in a debug build; a release build   *)
(* wraps, takes every (no) element and panics on the empty string instead  *)
encode_property(s, m, b, bits) ==
    IF Len(s) = 0 THEN Panic
    ELSE LET bits_string == collect_bits(s, m, b, 1, <<>>)
         IN IF bits_string.tag = "Panic" THEN Panic
            ELSE LET n == from_str_radix(bits_string.str, b)
                 IN IF n.tag = "Err" THEN Panic   \* .expect(..)
                    ELSE try_into_encoded(n.num, bits)

RECURSIVE digit_sum(_, _, _)
digit_sum(s, radix, i) ==
    IF i > Len(s) THEN 0
    ELSE to_digit(s[i], radix).digit + digit_sum(s, radix, i + 1)

(* (base as u32 - sum % base as u32) as u8 *)
last_digit(sum, b) == b - (sum % b)

(* len - 1 - bits_string.len() below zero overflows: a panic in a debug    *)
(* build; a release build wraps and the collect of that many zeros aborts  *)
decode_property(property, b, n) ==
    LET p == try_into_usize(property)
    IN IF p.tag = "Err" THEN ConversionError
       ELSE LET bits_string == radix_fmt(p.num, b)
                pad == n - 1 - Len(bits_string)
            IN IF pad < 0 THEN Panic
               ELSE OkSeq([i \in 1..pad |-> 0]
                          \o [i \in 1..Len(bits_string) |-> to_digit(bits_string[i], b).digit]
                          \o <<last_digit(digit_sum(bits_string, b, 1), b)>>)

----------------------------------------------------------------------------
(* The callers' arguments *)

(* the Encoded types asked for: u8 and u16 *)
Widths == {8, 16}

RECURSIVE Orderings(_)
Orderings(S) ==
    IF S = {} THEN {<<>>}
    ELSE UNION {{<<x>> \o o : o \in Orderings(S \ {x})} : x \in S}

RECURSIVE SeqsUpTo(_, _)
SeqsUpTo(S, n) ==
    IF n = 0 THEN {<<>>}
    ELSE LET shorter == SeqsUpTo(S, n - 1)
         IN shorter \cup {Append(t, x) : t \in {u \in shorter : Len(u) = n - 1}, x \in S}

(* sets of n distinct values: 0..n-1, and the odd numbers 1, 3, .. *)
ValueSets(n) == {0..(n - 1), {2 * i + 1 : i \in 0..(n - 1)}}

PermutationData(maxLen) == UNION {Orderings(S) : S \in UNION {ValueSets(n) : n \in 0..maxLen}}

(* the shuffled copies of s a caller passes to decode_permutation *)
Reorderings(s) ==
    IF Len(s) <= MaxShuffleLen THEN Orderings(Range(s))
    ELSE {s, Reverse(s), sort(s)}

PositionValues == {0, 1}
Predicates == {{1}, {0}}

NumInteresting(s, p) == Cardinality({i \in 1..Len(s) : is_interesting(s[i], p)})

PropertyValues == 0..(MaxBase - 1)
Bases == 2..MaxBase
Mappings ==
    {[x \in PropertyValues |-> x], [x \in PropertyValues |-> (x + 1) % MaxBase]}

PropertyData ==
    SeqsUpTo(PropertyValues, MaxPropLen) \cup [1..MaxPropLongLen -> {0, 1}]

DecoderCodes == (-1)..MaxCode

NoMapping == [x \in PropertyValues |-> x]

InitPermutation ==
    /\ coder = "permutation"
    /\ \/ /\ pc = "encode" /\ roundtrip = TRUE
          /\ data \in PermutationData(MaxPermLen)
          /\ reference \in Reorderings(data)
          /\ width \in Widths
          /\ code = 0
       \/ /\ pc = "decode" /\ roundtrip = FALSE
          /\ data = <<>>
          /\ reference \in PermutationData(MaxDecLen)
          /\ width = 8
          /\ code \in DecoderCodes
    /\ pred = {} /\ mapping = NoMapping /\ base = 2
    /\ num_interesting = 0 /\ len = 0

InitPosition ==
    /\ coder = "position"
    /\ \/ /\ pc = "encode" /\ roundtrip = TRUE
          /\ data \in SeqsUpTo(PositionValues, MaxPosLen)
          /\ pred \in Predicates
          /\ width \in Widths
          /\ num_interesting = NumInteresting(data, pred)
          /\ len = Len(data)
          /\ code = 0
       \/ /\ pc = "decode" /\ roundtrip = FALSE
          /\ data = <<>> /\ pred = {} /\ width = 8
          /\ num_interesting \in 0..(MaxDecLen + 1)
          /\ len \in 0..MaxDecLen
          /\ code \in DecoderCodes
    /\ reference = <<>> /\ mapping = NoMapping /\ base = 2

InitProperty ==
    /\ coder = "property"
    /\ base \in Bases
    /\ \/ /\ pc = "encode" /\ roundtrip = TRUE
          /\ data \in PropertyData
          /\ mapping \in Mappings
          /\ width \in Widths
          /\ len = Len(data)
          /\ code = 0
       \/ /\ pc = "decode" /\ roundtrip = FALSE
          /\ data = <<>> /\ mapping = NoMapping /\ width = 8
          /\ len \in 0..MaxDecLen
          /\ code \in DecoderCodes
    /\ reference = <<>> /\ pred = {} /\ num_interesting = 0

Init ==
    /\ encoded = NoResult
    /\ decoded = NoResult
    /\ \/ InitPermutation
       \/ InitPosition
       \/ InitProperty

----------------------------------------------------------------------------
(* The calls *)

(* the caller hands a returned number on to the decoder *)
Returned(result) ==
    /\ encoded' = result
    /\ IF result.tag = "Ok"
       THEN code' = result.num /\ pc' = "decode"
       ELSE code' = code /\ pc' = "done"
    /\ UNCHANGED <<args, decoded>>

Decoded(result) ==
    /\ decoded' = result
    /\ pc' = "done"
    /\ UNCHANGED <<args, code, encoded>>

EncodePermutation ==
    /\ pc = "encode" /\ coder = "permutation"
    /\ Returned(encode_permutation(data, width))

DecodePermutation ==
    /\ pc = "decode" /\ coder = "permutation"
    /\ Decoded(decode_permutation(code, reference))

EncodePosition ==
    /\ pc = "encode" /\ coder = "position"
    /\ Returned(encode_position(data, pred, width))

DecodePosition ==
    /\ pc = "decode" /\ coder = "position"
    /\ Decoded(decode_position(code, num_interesting, len))

EncodeProperty ==
    /\ pc = "encode" /\ coder = "property"
    /\ Returned(encode_property(data, mapping, base, width))

DecodeProperty ==
    /\ pc = "decode" /\ coder = "property"
    /\ Decoded(decode_property(code, base, len))

Next ==
    \/ EncodePermutation
    \/ DecodePermutation
    \/ EncodePosition
    \/ DecodePosition
    \/ EncodeProperty
    \/ DecodeProperty

Spec == Init /\ [][Next]_vars

----------------------------------------------------------------------------
(* Arithmetic the properties are stated with *)

RECURSIVE Fact(_)
Fact(n) == IF n <= 1 THEN 1 ELSE n * Fact(n - 1)

(* C(n, k) by Pascal's rule *)
RECURSIVE Choose(_, _)
Choose(n, k) ==
    IF k < 0 \/ k > n THEN 0
    ELSE IF k = 0 \/ k = n THEN 1
    ELSE Choose(n - 1, k - 1) + Choose(n - 1, k)

MaxOf(bits) == Pow(2, bits) - 1

(* the digits property_mapping gives the elements of s *)
Digits(s, m) == [i \in 1..Len(s) |-> m[s[i]]]

RECURSIVE SeqSum(_)
SeqSum(s) == IF s = <<>> THEN 0 ELSE Head(s) + SeqSum(Tail(s))

(* the digit string d, most significant digit first, read in base b *)
RECURSIVE PositionalValue(_, _)
PositionalValue(d, b) ==
    IF d = <<>> THEN 0
    ELSE PositionalValue(SubSeq(d, 1, Len(d) - 1), b) * b + d[Len(d)]

(* the sum of the base-b digits of n *)
RECURSIVE DigitSumOf(_, _)
DigitSumOf(n, b) == IF n = 0 THEN 0 ELSE (n % b) + DigitSumOf(n \div b, b)

DigitsInBase(s, m, b) == \A i \in 1..Len(s) : m[s[i]] \in 0..(b - 1)

ParityHolds(s, m, b) == SeqSum(Digits(s, m)) % b = 0

IsPermutationOf(s, t) == Len(s) = Len(t) /\ Range(s) = Range(t)

(* the indices (from 0) of the interesting elements, smallest first *)
RECURSIVE InterestingIndices(_, _, _)
InterestingIndices(s, p, i) ==
    IF i > Len(s) THEN <<>>
    ELSE (IF is_interesting(s[i], p) THEN <<i - 1>> ELSE <<>>)
         \o InterestingIndices(s, p, i + 1)

(* lexicographic order of two sequences of equal length *)
LexLess(a, b) ==
    \E i \in 1..Len(a) :
        /\ a[i] < b[i]
        /\ \A j \in 1..(i - 1) : a[j] = b[j]

EncodeReturned(c) == coder = c /\ roundtrip /\ pc # "encode"

RoundTripDone(c) == coder = c /\ roundtrip /\ pc = "done" /\ encoded.tag = "Ok"

----------------------------------------------------------------------------
(* Round trips *)

(* C1: for every base, every length N >= 2 and every digit sequence over   *)
(* [0, B) whose digits sum to 0 mod B, decode_property of the number       *)
(* encode_property returned, with the same base and N, is that digit       *)
(* sequence.                                                               *)
C1_RoundTripProperty ==
    (/\ RoundTripDone("property")
     /\ Len(data) >= 2
     /\ DigitsInBase(data, mapping, base)
     /\ ParityHolds(data, mapping, base))
    => decoded = OkSeq(Digits(data, mapping))

(* C2: decode_permutation of the number encode_permutation returned for p, *)
(* with any reordering of p's values as the reference, is p.               *)
C2_RoundTripPermutation ==
    RoundTripDone("permutation") => decoded = OkSeq(data)

C2_Witness ==
    /\ RoundTripDone("permutation")
    /\ Len(data) = 4
    /\ data # sort(data)
    /\ reference # data
    /\ reference # sort(data)
    /\ decoded = OkSeq(data)

(* C3: decode_position of the number encode_position returned, with K the  *)
(* number of interesting elements and N the length, is map(pred, seq).     *)
C3_RoundTripPosition ==
    RoundTripDone("position")
    => decoded = OkSeq([i \in 1..Len(data) |-> is_interesting(data[i], pred)])

C3_Witness ==
    /\ RoundTripDone("position")
    /\ Len(data) >= 5
    /\ num_interesting \in 2..(Len(data) - 2)
    /\ code > 0
    /\ decoded = OkSeq([i \in 1..Len(data) |-> is_interesting(data[i], pred)])

----------------------------------------------------------------------------
(* Ranges and overflow *)

(* the number each encoder computes before the conversion to Encoded *)
NaturalCode ==
    CASE coder = "permutation" -> counts_encode(from_data(data))
      [] coder = "position" -> position_scan(data, pred, 1, 0, 0)
      [] coder = "property" ->
            PositionalValue(SubSeq(Digits(data, mapping), 1, Len(data) - 1), base)

(* C4: each encoder returns a conversion error when the natural code of    *)
(* its input exceeds the maximum of the requested width, and exactly the   *)
(* code when it fits.                                                      *)
C4_OverflowDetection ==
    (/\ \/ EncodeReturned("permutation")
        \/ EncodeReturned("position")
        \/ (/\ EncodeReturned("property")
            /\ Len(data) >= 1
            /\ DigitsInBase(data, mapping, base)))
    => encoded = IF NaturalCode > MaxOf(width) THEN ConversionError
                 ELSE OkNum(NaturalCode)

(* C5: encode_permutation(p) < N!, every count at index i being in [0, i]. *)
C5_RangePermutation ==
    EncodeReturned("permutation")
    => /\ \A i \in 1..Len(data) : from_data(data)[i] \in 0..(i - 1)
       /\ NaturalCode < Fact(Len(data))
       /\ encoded.tag = "Ok" => encoded.num < Fact(Len(data))

C5_Witness ==
    /\ EncodeReturned("permutation")
    /\ Len(data) = 5
    /\ encoded = OkNum(Fact(5) - 1)

(* C6: encode_position(seq, pred) < C(N, K). *)
C6_RangePosition ==
    EncodeReturned("position")
    => /\ NaturalCode < Choose(Len(data), NumInteresting(data, pred))
       /\ encoded.tag = "Ok"
            => encoded.num < Choose(Len(data), NumInteresting(data, pred))

C6_Witness ==
    /\ EncodeReturned("position")
    /\ Len(data) = 6
    /\ NumInteresting(data, pred) = 3
    /\ encoded = OkNum(Choose(6, 3) - 1)

(* C7: for every N >= 1 and every sequence whose digits lie in [0, B),     *)
(* encode_property returns an integer in [0, B^(N-1)).                     *)
C7_RangeProperty ==
    (/\ EncodeReturned("property")
     /\ Len(data) >= 1
     /\ DigitsInBase(data, mapping, base))
    => /\ encoded.tag # "Panic"
       /\ encoded.tag = "Ok" => encoded.num \in 0..(Pow(base, Len(data) - 1) - 1)

----------------------------------------------------------------------------
(* Decoding a caller-chosen number *)

DecodedPermutation == pc = "done" /\ coder = "permutation" /\ decoded # NoResult

(* C8 as claimed: every number that converts to usize, below N! or not,    *)
(* decodes to a permutation of the reference set.                          *)
C8_DecodeAnyCode ==
    (DecodedPermutation /\ code >= 0)
    => decoded.tag = "Ok" /\ IsPermutationOf(decoded.seq, reference)

(* C8 as amended: a number below N! decodes to a permutation of the        *)
(* reference set, a negative number is the conversion error, and a number  *)
(* of N! or more (N >= 1) panics.                                          *)
C8_DecodeCodeBelowFactorial ==
    DecodedPermutation
    => /\ code < 0 => decoded = ConversionError
       /\ (code >= 0 /\ code < Fact(Len(reference)))
            => decoded.tag = "Ok" /\ IsPermutationOf(decoded.seq, reference)
       /\ (code >= Fact(Len(reference)) /\ Len(reference) >= 1)
            => decoded = Panic

C8_Witness ==
    /\ DecodedPermutation
    /\ ~roundtrip
    /\ Len(reference) = 3
    /\ code = 4
    /\ decoded.tag = "Ok"
    /\ decoded.seq # reference
    /\ IsPermutationOf(decoded.seq, reference)

(* C10: when decode_property returns, the last element is                  *)
(* (B - (S mod B)) mod B, S the sum of the base-B digits of the number,    *)
(* and every element is a digit in [0, B).                                 *)
C10_LastDigit ==
    (pc = "done" /\ coder = "property" /\ decoded.tag = "Ok")
    => /\ decoded.seq[len] = (base - (DigitSumOf(code, base) % base)) % base
       /\ \A i \in 1..len : decoded.seq[i] \in 0..(base - 1)

----------------------------------------------------------------------------
(* The order of the position numbers *)

(* the slices of the length of data with as many interesting elements *)
Comparable ==
    {other \in [1..Len(data) -> PositionValues] :
        NumInteresting(other, pred) = NumInteresting(data, pred)}

Compared == EncodeReturned("position") /\ Len(data) <= MaxCmpLen /\ encoded.tag = "Ok"

(* C9 as claimed: an index set that is lexicographically smaller (indices  *)
(* listed smallest first) has the smaller position number.                 *)
C9_LexIncreasing ==
    Compared
    => \A other \in Comparable :
          LexLess(InterestingIndices(data, pred, 1), InterestingIndices(other, pred, 1))
          => encoded.num < encode_position(other, pred, width).num

(* C9 as amended: an index set that is lexicographically smaller with its  *)
(* indices listed largest first has the greater position number.           *)
C9_ColexDecreasing ==
    Compared
    => \A other \in Comparable :
          LexLess(Reverse(InterestingIndices(data, pred, 1)),
                  Reverse(InterestingIndices(other, pred, 1)))
          => encoded.num > encode_position(other, pred, width).num

C9_Witness ==
    /\ Compared
    /\ Len(data) = 5
    /\ NumInteresting(data, pred) = 2
    /\ \E other \in Comparable :
          /\ LexLess(Reverse(InterestingIndices(data, pred, 1)),
                     Reverse(InterestingIndices(other, pred, 1)))
          /\ LexLess(InterestingIndices(other, pred, 1), InterestingIndices(data, pred, 1))
          /\ encoded.num > encode_position(other, pred, width).num
          /\ encode_position(other, pred, width).num > 0

====
